---- MODULE Spec2Model ----
(***************************************************************************)
(* A model of src/config.py: Config / ConfigList / ConfigDict nodes, the   *)
(* get_config capture, and the _configurable registration with its wrapped *)
(* constructor, default_config, current_config and from_config.            *)
(*                                                                         *)
(* Python values are tagged records.  Every mutable Python object carries  *)
(* an "id" drawn from a fresh-id counter: two values denote the same       *)
(* Python object (the `is` relation) exactly when they carry the same id.  *)
(* A dict (an object's __dict__, a kwargs mapping) is a sequence of        *)
(* [n |-> name, v |-> value] pairs in insertion order.                     *)
(* Operations that allocate objects or may raise return a record           *)
(* [v |-> value, n |-> next fresh id, e |-> exception name or ""].         *)
(***************************************************************************)
EXTENDS Integers, Sequences, FiniteSets, TLC

VARIABLES reg, cfg, objs, res, nid, file, steps, edits

vars == <<reg, cfg, objs, res, nid, file, steps, edits>>

\* ------------------------------------------------------------------ bounds
MaxSteps == 3
MaxObjs == 2
MaxEdits == 1

\* ------------------------------------------------------------------ values
NoneV == [k |-> "none"]
IsNone(v) == v.k = "none"
IntV(i) == [k |-> "int", v |-> i]
BoolV(b) == [k |-> "bool", b |-> b]
ClassV(c) == [k |-> "class", name |-> c]
ListV(id, items) == [k |-> "list", id |-> id, items |-> items]
ModuleListV(id, items) == [k |-> "modulelist", id |-> id, items |-> items]
DictV(id, d) == [k |-> "dict", id |-> id, d |-> d]
ModuleDictV(id, d) == [k |-> "moduledict", id |-> id, d |-> d]
\* an instance of a user class; inited: the base type's own __init__ has run
ObjV(id, c, inited, d) == [k |-> "obj", id |-> id, cls |-> c, inited |-> inited, d |-> d]
\* a Config (kind "Config"), ConfigList or ConfigDict node and its __dict__
CfgV(id, kind, d) == [k |-> "cfg", id |-> id, kind |-> kind, d |-> d]

Ok(v, n) == [v |-> v, n |-> n, e |-> ""]
Err(e, n) == [v |-> NoneV, n |-> n, e |-> e]

\* sequencing: a raised exception ends the operation, a result is handed on.
\* Then takes a result that carries its own fresh-id counter, Try one of an
\* attribute write ([v, e], no allocation), TryNode stays within writes.
Then(r, F(_)) == IF r.e # "" THEN Err(r.e, r.n) ELSE F(r)
Try(w, n, F(_)) == IF w.e # "" THEN Err(w.e, n) ELSE F(w.v)
TryNode(w, F(_)) == IF w.e # "" THEN w ELSE F(w.v)
Let(x, F(_)) == F(x)

\* Python truthiness of the values the model uses
Truthy(v) ==
    CASE v.k = "bool" -> v.b
      [] v.k = "int" -> v.v # 0
      [] v.k = "none" -> FALSE
      [] v.k \in {"list", "modulelist"} -> Len(v.items) > 0
      [] v.k \in {"dict", "moduledict"} -> Len(v.d) > 0
      [] OTHER -> TRUE

\* ------------------------------------------------------------------- dicts
Pair(n, v) == [n |-> n, v |-> v]
DictNames(d) == {d[i].n : i \in 1..Len(d)}
DictHas(d, key) == \E i \in 1..Len(d) : d[i].n = key
DictGet(d, key) == d[CHOOSE i \in 1..Len(d) : d[i].n = key].v
\* d[key] = value: an existing key keeps its position, a new key is appended
DictSet(d, key, value) ==
    IF DictHas(d, key)
    THEN [i \in 1..Len(d) |-> IF d[i].n = key THEN Pair(key, value) ELSE d[i]]
    ELSE Append(d, Pair(key, value))
\* d.pop(key)
DictPop(d, key) == SelectSeq(d, LAMBDA p : p.n # key)

\* ------------------------------------------------------------ Config nodes
UnknownField == "Exception: Config object has no attribute named"
NotCallable == "TypeError: object is not callable"
NoAttribute == "AttributeError"
NoItemAssignment == "TypeError: object does not support item assignment"

\* the names `hasattr` finds on the class of a node rather than in its __dict__
BaseAttrs == {"setattrs", "freeze", "create_object", "save", "load"}
ClassAttrs(kind) ==
    CASE kind = "ConfigList" -> BaseAttrs \cup {"append", "insert", "remove", "pop"}
      [] kind = "ConfigDict" -> BaseAttrs \cup {"keys", "values", "items"}
      [] OTHER -> BaseAttrs

\* hasattr(node, key): the instance __dict__, then the class
HasAttr(node, key) == DictHas(node.d, key) \/ key \in ClassAttrs(node.kind)

\* node.<name>(...) resolves <name> in the instance __dict__ first: a field of
\* that name shadows the method, and the field's value is not callable
MethodShadowed(node, name) == DictHas(node.d, name)

IsFrozen(node) == DictHas(node.d, "isfrozen") /\ Truthy(DictGet(node.d, "isfrozen"))

\* Config.__setattr__(self, key, value)
Config__setattr__(node, key, value) ==
    IF HasAttr(node, "isfrozen") /\ IsFrozen(node) /\ ~HasAttr(node, key)
    THEN [v |-> node, e |-> UnknownField]
    ELSE [v |-> [node EXCEPT !.d = DictSet(node.d, key, value)], e |-> ""]

\* the loop `for k, v in kwargs.items(): self.__setattr__(k, v)`; a raise
\* leaves the writes made before it in place
RECURSIVE SetLoop(_, _, _)
SetLoop(node, kwargs, i) ==
    IF i > Len(kwargs) THEN [v |-> node, e |-> ""]
    ELSE TryNode(Config__setattr__(node, kwargs[i].n, kwargs[i].v),
                 LAMBDA w : SetLoop(w, kwargs, i + 1))

\* Config.setattrs(self, kwargs), called as node.setattrs(kwargs)
Config_setattrs(node, kwargs) ==
    IF MethodShadowed(node, "setattrs") THEN [v |-> node, e |-> NotCallable]
    ELSE SetLoop(node, kwargs, 1)

\* Config.freeze(self, frozen), called as node.freeze(frozen)
Config_freeze(node, frozen) ==
    IF MethodShadowed(node, "freeze") THEN [v |-> node, e |-> NotCallable]
    ELSE Config__setattr__(node, "isfrozen", frozen)

\* Config.__init__(self, cls, freeze, **kwargs) on a fresh object with id n
Config__init__(c, freeze, kwargs, n) ==
    Try(SetLoop(Config__setattr__(Config__setattr__(CfgV(n, "Config", <<>>),
                                                    "cls", c).v,
                                  "isfrozen", BoolV(FALSE)).v,
                DictPop(kwargs, "freeze"), 1), n + 1, LAMBDA w :
    Try(Config_freeze(w, IF DictHas(kwargs, "freeze")
                         THEN DictGet(kwargs, "freeze") ELSE freeze), n + 1, LAMBDA z :
    Ok(z, n + 1)))

\* the field names of a node as the spec counts them: the __dict__ without the
\* target and the frozen flag
FieldNames(node) == DictNames(node.d) \ {"cls", "isfrozen"}
Target(node) == DictGet(node.d, "cls")

\* ----------------------------------------------------------------- classes
\* The user classes the program defines, in definition order.  module: the
\* class derives from nn.Module; params: the constructor's parameter names;
\* defaults: the declared defaults of the trailing parameters (expressions
\* evaluated once, when the class is defined); stores: the parameters the
\* original constructor assigns to self under their own names; slots: the
\* only attribute names instances accept ({} when every name is accepted).
IntE(i) == [x |-> "int", v |-> i]
NewE(c) == [x |-> "new", cls |-> c]
ListE(items) == [x |-> "list", items |-> items]
BoolE(b) == [x |-> "bool", b |-> b]

ClassOrder == <<"ReLU", "Layer", "Head", "Plain", "Slot", "Gate">>
ClassNames == {ClassOrder[i] : i \in 1..Len(ClassOrder)}

ClassTable ==
    [c \in ClassNames |->
        CASE c = "ReLU" ->
               [module |-> TRUE, params |-> <<>>, defaults |-> <<>>,
                stores |-> {}, slots |-> {}]
          [] c = "Layer" ->
               [module |-> TRUE, params |-> <<"width", "activation", "sizes">>,
                defaults |-> <<IntE(10), NewE("ReLU"), ListE(<<IntE(1), IntE(2)>>)>>,
                stores |-> {"width", "activation", "sizes"}, slots |-> {}]
          [] c = "Head" ->
               [module |-> TRUE, params |-> <<"units", "act">>,
                defaults |-> <<IntE(3), ListE(<<NewE("ReLU")>>)>>,
                stores |-> {"units"}, slots |-> {}]
          [] c = "Plain" ->
               [module |-> FALSE, params |-> <<"req", "width">>,
                defaults |-> <<IntE(10)>>,
                stores |-> {"req", "width"}, slots |-> {}]
          [] c = "Slot" ->
               [module |-> FALSE, params |-> <<"a", "b">>,
                defaults |-> <<IntE(1), IntE(2)>>,
                stores |-> {"a"}, slots |-> {"a"}]
          [] OTHER ->
               [module |-> FALSE, params |-> <<"freeze">>,
                defaults |-> <<BoolE(FALSE)>>,
                stores |-> {"freeze"}, slots |-> {}]]

\* the keyword overrides a class may be registered with: @configurable(**kw)
Overrides(c) ==
    IF c = "Plain"
    THEN {<<>>, <<Pair("width", IntE(99))>>, <<Pair("width", NewE("ReLU"))>>,
          <<Pair("req", IntE(5))>>}
    ELSE {<<>>}

Unregistered == [registered |-> FALSE]
Registered(c) == c \in ClassNames /\ reg[c].registered

\* ------------------------------------------------------- values, identity
HasId(v) == v.k \in {"list", "modulelist", "dict", "moduledict", "obj", "cfg"}
\* Python's `v is w`: mutable objects by identity; None, bools, small ints and
\* classes are unique objects
Is(v, w) == IF HasId(v) /\ HasId(w) THEN v.id = w.id ELSE v = w

\* isinstance(v, nn.Module)
IsModule(v) ==
    \/ v.k \in {"modulelist", "moduledict"}
    \/ v.k = "obj" /\ ClassTable[v.cls].module
\* isinstance(v, Config)
IsConfig(v) == v.k = "cfg"

\* ------------------------------------------------------ instance attributes
ObjHasAttr(obj, key) == DictHas(obj.d, key)
\* setattr(obj, key, value) on an instance of a user class: a class with
\* __slots__ rejects other names; an nn.Module rejects a sub-module until
\* Module.__init__ has run
ObjSetAttr(obj, key, value) ==
    IF ClassTable[obj.cls].slots # {} /\ key \notin ClassTable[obj.cls].slots
    THEN [v |-> obj, e |-> NoAttribute]
    ELSE IF ClassTable[obj.cls].module /\ IsModule(value) /\ ~obj.inited
    THEN [v |-> obj, e |-> NoAttribute]
    ELSE [v |-> [obj EXCEPT !.d = DictSet(obj.d, key, value)], e |-> ""]

\* -------------------------------------------------------------- deep copy
\* copy.deepcopy: atoms and classes are returned as they are, every mutable
\* object is rebuilt under a fresh id
RECURSIVE DeepCopy(_, _)
RECURSIVE DeepCopyItems(_, _, _, _)
RECURSIVE DeepCopyPairs(_, _, _, _)
DeepCopy(v, n) ==
    IF ~HasId(v) THEN [v |-> v, n |-> n]
    ELSE IF v.k \in {"list", "modulelist"}
    THEN Let(DeepCopyItems(v.items, 1, <<>>, n + 1), LAMBDA r :
             [v |-> [v EXCEPT !.id = n, !.items = r.v], n |-> r.n])
    ELSE Let(DeepCopyPairs(v.d, 1, <<>>, n + 1), LAMBDA r :
             [v |-> [v EXCEPT !.id = n, !.d = r.v], n |-> r.n])
DeepCopyItems(items, i, acc, n) ==
    IF i > Len(items) THEN [v |-> acc, n |-> n]
    ELSE Let(DeepCopy(items[i], n), LAMBDA r :
             DeepCopyItems(items, i + 1, Append(acc, r.v), r.n))
DeepCopyPairs(d, i, acc, n) ==
    IF i > Len(d) THEN [v |-> acc, n |-> n]
    ELSE Let(DeepCopy(d[i].v, n), LAMBDA r :
             DeepCopyPairs(d, i + 1, Append(acc, Pair(d[i].n, r.v)), r.n))

\* ------------------------------------------ capture, build, construction
MissingTarget == "Exception: has not attribute cls"
NotReconstructible == "Exception: object has no attribute from_config"
AssertionFailed == "AssertionError"
KeyMissing == "KeyError"
BadCall == "TypeError: bad arguments"

RECURSIVE GetConfig(_, _)
RECURSIVE GetConfigItems(_, _, _, _)
RECURSIVE GetConfigPairs(_, _, _, _)
RECURSIVE CurrentConfig(_, _)
RECURSIVE Overlay(_, _, _, _)
RECURSIVE CreateObject(_, _)
RECURSIVE CreateItems(_, _, _, _)
RECURSIVE CreatePairs(_, _, _, _)
RECURSIVE FromConfig(_, _, _)
RECURSIVE Construct(_, _, _, _)
RECURSIVE Refresh(_, _, _, _)
RECURSIVE Realize(_, _, _)

\* the children of the collection a composite is built from
Children(kind, configs) ==
    IF kind = "ConfigList" THEN configs.items
    ELSE [i \in 1..Len(configs.d) |-> configs.d[i].v]

\* ConfigList.__init__(self, configs) / ConfigDict.__init__(self, configs):
\* configs is a list value (ConfigList) or a dict value (ConfigDict)
Composite__init__(kind, configs, n) ==
    IF \E i \in 1..Len(Children(kind, configs)) : ~IsConfig(Children(kind, configs)[i])
    THEN Err(AssertionFailed, n + 1)
    ELSE Let(DeepCopy(configs, n + 1), LAMBDA cp :
         Try(Config_freeze(
                 Config__setattr__(
                     Config__setattr__(CfgV(n, kind, <<>>), "cls", ClassV(kind)).v,
                     "configs", cp.v).v,
                 BoolV(TRUE)), cp.n, LAMBDA w :
         Ok(w, cp.n)))

\* default_config(cls, **kwargs) of a registered class c
DefaultConfig(c, kwargs, n) ==
    Then(Config__init__(ClassV(c), BoolV(FALSE), <<>>, n), LAMBDA r0 :
    Let(DeepCopyPairs(reg[c].adcv, 1, <<>>, r0.n), LAMBDA cp :
    Try(Config_setattrs(r0.v, cp.v), cp.n, LAMBDA w1 :
    Try(Config_setattrs(w1, kwargs), cp.n, LAMBDA w2 :
    Try(Config_freeze(w2, BoolV(TRUE)), cp.n, LAMBDA w3 :
    Ok(w3, cp.n))))))

\* get_config(m): the captured config of m, or None
GetConfig(m, n) ==
    IF m.k = "obj" /\ Registered(m.cls) THEN CurrentConfig(m, n)
    ELSE IF m.k \in {"list", "modulelist"}
    THEN Then(GetConfigItems(m.items, 1, <<>>, n), LAMBDA r :
              IF r.none THEN Ok(NoneV, r.n)
              ELSE Composite__init__("ConfigList", ListV(r.n, r.v), r.n + 1))
    ELSE IF m.k \in {"dict", "moduledict"}
    THEN Then(GetConfigPairs(m.d, 1, <<>>, n), LAMBDA r :
              IF r.none THEN Ok(NoneV, r.n)
              ELSE Composite__init__("ConfigDict", DictV(r.n, r.v), r.n + 1))
    ELSE Ok(NoneV, n)
\* the loop over a list: None as soon as one element has no config
GetConfigItems(items, i, acc, n) ==
    IF i > Len(items) THEN [v |-> acc, n |-> n, e |-> "", none |-> FALSE]
    ELSE Then(GetConfig(items[i], n), LAMBDA r :
              IF IsNone(r.v) THEN [v |-> <<>>, n |-> r.n, e |-> "", none |-> TRUE]
              ELSE GetConfigItems(items, i + 1, Append(acc, r.v), r.n))
GetConfigPairs(d, i, acc, n) ==
    IF i > Len(d) THEN [v |-> acc, n |-> n, e |-> "", none |-> FALSE]
    ELSE Then(GetConfig(d[i].v, n), LAMBDA r :
              IF IsNone(r.v) THEN [v |-> <<>>, n |-> r.n, e |-> "", none |-> TRUE]
              ELSE GetConfigPairs(d, i + 1, Append(acc, Pair(d[i].n, r.v)), r.n))

\* current_config(self): the default template overlaid with the instance's
\* attributes
CurrentConfig(self, n) ==
    Then(DefaultConfig(self.cls, <<>>, n), LAMBDA r : Overlay(self, r.v, 1, r.n))

\* current_config: `c = get_config(m); c = m if c is None else c`
ConfigOrValue(g, m) == IF IsNone(g) THEN m ELSE g

\* the loop `for k, v in cfg.__dict__.items()` of current_config
Overlay(self, node, i, n) ==
    IF i > Len(node.d) THEN Ok(node, n)
    ELSE IF node.d[i].n \in {"cls", "isfrozen"} \/ ~ObjHasAttr(self, node.d[i].n)
    THEN Overlay(self, node, i + 1, n)
    ELSE Then(GetConfig(DictGet(self.d, node.d[i].n), n), LAMBDA g :
         Try(Config__setattr__(node, node.d[i].n,
                               ConfigOrValue(g.v, DictGet(self.d, node.d[i].n))),
             g.n, LAMBDA w :
         Overlay(self, w, i + 1, g.n)))

\* a variant of Promote that tests `any` where the code tests `all`: one
\* nn.Module among the built children is enough for the framework's collection
PromoteOnAny(kind, built, count, n) ==
    IF kind = "ConfigList"
    THEN IF (\E i \in 1..Len(built) : IsModule(built[i])) /\ count > 0
         THEN [v |-> ModuleListV(n + 1, built), n |-> n + 2, e |-> ""]
         ELSE [v |-> ListV(n, built), n |-> n + 1, e |-> ""]
    ELSE IF (\E i \in 1..Len(built) : IsModule(built[i].v)) /\ count > 0
         THEN [v |-> ModuleDictV(n + 1, built), n |-> n + 2, e |-> ""]
         ELSE [v |-> DictV(n, built), n |-> n + 1, e |-> ""]

\* create_object of a composite: the framework's collection when every built
\* child is an nn.Module and there is at least one child, else the plain one
Promote(kind, built, count, n) ==
    IF kind = "ConfigList"
    THEN IF (\A i \in 1..Len(built) : IsModule(built[i])) /\ count > 0
         THEN Ok(ModuleListV(n + 1, built), n + 2)
         ELSE Ok(ListV(n, built), n + 1)
    ELSE IF (\A i \in 1..Len(built) : IsModule(built[i].v)) /\ count > 0
         THEN Ok(ModuleDictV(n + 1, built), n + 2)
         ELSE Ok(DictV(n, built), n + 1)

\* Config.create_object / ConfigList.create_object / ConfigDict.create_object
CreateObject(node, n) ==
    IF MethodShadowed(node, "create_object") THEN Err(NotCallable, n)
    ELSE IF node.kind = "ConfigList"
    THEN Then(CreateItems(DictGet(node.d, "configs").items, 1, <<>>, n), LAMBDA r :
              Promote(node.kind, r.v, Len(DictGet(node.d, "configs").items), r.n))
    ELSE IF node.kind = "ConfigDict"
    THEN Then(CreatePairs(DictGet(node.d, "configs").d, 1, <<>>, n), LAMBDA r :
              Promote(node.kind, r.v, Len(DictGet(node.d, "configs").d), r.n))
    ELSE IF ~HasAttr(node, "cls") THEN Err(MissingTarget, n)
    ELSE IF ~(Target(node).k = "class" /\ Registered(Target(node).name))
    THEN Err(NotReconstructible, n)
    ELSE FromConfig(Target(node).name, node, n)
\* the loop `for c in self.configs: m = c.create_object(); models.append(m)`
CreateItems(items, i, acc, n) ==
    IF i > Len(items) THEN [v |-> acc, n |-> n, e |-> ""]
    ELSE Then(CreateObject(items[i], n), LAMBDA r :
              CreateItems(items, i + 1, Append(acc, r.v), r.n))
\* the loop `for k, v in self.configs.items(): models[k] = v.create_object()`
CreatePairs(d, i, acc, n) ==
    IF i > Len(d) THEN [v |-> acc, n |-> n, e |-> ""]
    ELSE Then(CreateObject(d[i].v, n), LAMBDA r :
              CreatePairs(d, i + 1, Append(acc, Pair(d[i].n, r.v)), r.n))

\* the loop of from_config: `if isinstance(v, Config): kwargs[k] = v.create_object()`
Realize(kwargs, i, n) ==
    IF i > Len(kwargs) THEN [v |-> kwargs, n |-> n, e |-> ""]
    ELSE IF ~IsConfig(kwargs[i].v) THEN Realize(kwargs, i + 1, n)
    ELSE Then(CreateObject(kwargs[i].v, n), LAMBDA r :
              Realize([kwargs EXCEPT ![i] = Pair(kwargs[i].n, r.v)], i + 1, r.n))

\* the test of new__init__ that a call-site value is rebuilt:
\* `(v is args_default_value[k]) and args_default_config[k] is not None`
IsSharedDefault(c, key, val) ==
    Is(val, DictGet(reg[c].adv, key)) /\ ~IsNone(DictGet(reg[c].adc, key))

\* the loop of new__init__ that replaces a call-site value that is the shared
\* default object by a freshly built one
Refresh(kwargs, i, c, n) ==
    IF i > Len(kwargs) THEN [v |-> kwargs, n |-> n, e |-> ""]
    ELSE IF ~DictHas(reg[c].adv, kwargs[i].n) THEN Err(KeyMissing, n)
    ELSE IF ~IsSharedDefault(c, kwargs[i].n, kwargs[i].v) THEN Refresh(kwargs, i + 1, c, n)
    ELSE Then(CreateObject(DictGet(reg[c].adc, kwargs[i].n), n), LAMBDA r :
              Refresh([kwargs EXCEPT ![i] = Pair(kwargs[i].n, r.v)], i + 1, c, r.n))

\* from_config(cls, cfg) of a registered class c
FromConfig(c, node, n) ==
    IF ~Is(Target(node), ClassV(c)) THEN Err(AssertionFailed, n)
    ELSE Then(Realize(DictPop(DictPop(node.d, "isfrozen"), "cls"), 1, n), LAMBDA r :
              Construct(c, <<>>, r.v, r.n))

\* new__init__, first loop over _kwargs: try: if not hasattr(self, k):
\* setattr(self, k, v); except: pass
RECURSIVE MirrorBefore(_, _, _)
MirrorBefore(self, kwargs, i) ==
    IF i > Len(kwargs) THEN self
    ELSE IF ObjHasAttr(self, kwargs[i].n) THEN MirrorBefore(self, kwargs, i + 1)
    ELSE MirrorBefore(ObjSetAttr(self, kwargs[i].n, kwargs[i].v).v, kwargs, i + 1)

\* new__init__, last loop over _kwargs: if not hasattr(self, k):
\* setattr(self, k, v), with no handler around it
RECURSIVE MirrorAfter(_, _, _)
MirrorAfter(self, kwargs, i) ==
    IF i > Len(kwargs) THEN [v |-> self, e |-> ""]
    ELSE IF ObjHasAttr(self, kwargs[i].n) THEN MirrorAfter(self, kwargs, i + 1)
    ELSE TryNode(ObjSetAttr(self, kwargs[i].n, kwargs[i].v),
                 LAMBDA w : MirrorAfter(w, kwargs, i + 1))

\* the body of the original constructor: the base type's __init__, then
\* self.p = p for the parameters the class stores
RECURSIVE StoreParams(_, _, _)
StoreParams(self, bound, i) ==
    IF i > Len(bound) THEN [v |-> self, e |-> ""]
    ELSE IF bound[i].n \notin ClassTable[self.cls].stores THEN StoreParams(self, bound, i + 1)
    ELSE TryNode(ObjSetAttr(self, bound[i].n, bound[i].v),
                 LAMBDA w : StoreParams(w, bound, i + 1))

\* Python's binding of the keywords of a call to the parameters of the
\* original constructor: the declared default objects fill the absent ones
BindParams(c, kwargs) ==
    [i \in 1..Len(reg[c].names) |->
        Pair(reg[c].names[i],
             IF DictHas(kwargs, reg[c].names[i]) THEN DictGet(kwargs, reg[c].names[i])
             ELSE IF DictHas(reg[c].defaults, reg[c].names[i])
             THEN DictGet(reg[c].defaults, reg[c].names[i])
             ELSE NoneV)]

ParamNames(c) == {reg[c].names[i] : i \in 1..Len(reg[c].names)}

\* cls.old__init__(self, **_kwargs)
OldInit(self, kwargs) ==
    IF \E k \in DictNames(kwargs) : k \notin ParamNames(self.cls)
    THEN [v |-> self, e |-> BadCall]
    ELSE IF \E i \in 1..Len(reg[self.cls].names) :
               /\ ~DictHas(kwargs, reg[self.cls].names[i])
               /\ ~DictHas(reg[self.cls].defaults, reg[self.cls].names[i])
    THEN [v |-> self, e |-> BadCall]
    ELSE StoreParams([self EXCEPT !.inited = TRUE], BindParams(self.cls, kwargs), 1)

\* new__init__: `for i, v in enumerate(args): _kwargs[init_arg_names[i]] = v`
Positional(c, args) == [i \in 1..Len(args) |-> Pair(reg[c].names[i], args[i])]

\* new__init__: `for k, v in kwargs.items(): _kwargs[k] = v`
RECURSIVE MergeKwargs(_, _, _)
MergeKwargs(d, kwargs, i) ==
    IF i > Len(kwargs) THEN d
    ELSE MergeKwargs(DictSet(d, kwargs[i].n, kwargs[i].v), kwargs, i + 1)

\* cls(*args, **kwargs) of a registered class c: a fresh instance, then
\* new__init__(self, *args, **kwargs)
Construct(c, args, kwargs, n) ==
    IF Len(args) > Len(reg[c].names) THEN Err("IndexError", n + 1)
    ELSE Then(Refresh(MergeKwargs(Positional(c, args), kwargs, 1), 1, c, n + 1), LAMBDA r :
         Try(OldInit(MirrorBefore(ObjV(n, c, FALSE, <<>>), r.v, 1), r.v), r.n, LAMBDA s :
         Try(MirrorAfter(s, r.v, 1), r.n, LAMBDA t :
         Ok(t, r.n))))

\* ------------------------------------------------------------ registration
\* the value of a default or override expression, evaluated when the class is
\* defined
RECURSIVE Eval(_, _)
RECURSIVE EvalItems(_, _, _, _)
Eval(x, n) ==
    CASE x.x = "int" -> Ok(IntV(x.v), n)
      [] x.x = "bool" -> Ok(BoolV(x.b), n)
      [] x.x = "new" -> IF Registered(x.cls) THEN Construct(x.cls, <<>>, <<>>, n)
                        ELSE Err("NameError", n)
      [] OTHER -> Then(EvalItems(x.items, 1, <<>>, n + 1), LAMBDA r :
                       Ok(ListV(n, r.v), r.n))
EvalItems(items, i, acc, n) ==
    IF i > Len(items) THEN [v |-> acc, n |-> n, e |-> ""]
    ELSE Then(Eval(items[i], n), LAMBDA r :
              EvalItems(items, i + 1, Append(acc, r.v), r.n))
\* a mapping name -> expression evaluated to a dict name -> value
RECURSIVE EvalPairs(_, _, _, _)
EvalPairs(d, i, acc, n) ==
    IF i > Len(d) THEN [v |-> acc, n |-> n, e |-> ""]
    ELSE Then(Eval(d[i].v, n), LAMBDA r :
              EvalPairs(d, i + 1, Append(acc, Pair(d[i].n, r.v)), r.n))

\* _configurable: {k: get_config(v) for k, v in args_default_value.items()}
RECURSIVE ConfigOfEach(_, _, _, _)
ConfigOfEach(d, i, acc, n) ==
    IF i > Len(d) THEN [v |-> acc, n |-> n, e |-> ""]
    ELSE Then(GetConfig(d[i].v, n), LAMBDA r :
              ConfigOfEach(d, i + 1, Append(acc, Pair(d[i].n, r.v)), r.n))

\* a variant of ArgsDefaultValue that keeps only the parameters with a
\* declared default, as if init_arg_names_without_default were never entered
ArgsDefaultValueDeclaredOnly(names, defaults) ==
    [i \in 1..Len(defaults) |->
        Pair(names[i + (Len(names) - Len(defaults))], defaults[i])]

\* _configurable: args_default_value before the registration's kwargs: None
\* for a parameter without a declared default
ArgsDefaultValue(names, defaults) ==
    [i \in 1..Len(names) |->
        Pair(names[i], IF i <= Len(names) - Len(defaults) THEN NoneV
                       ELSE defaults[i - (Len(names) - Len(defaults))])]

\* _configurable: args_default_config_or_value, the mapping default_config
\* copies into the template
ArgsDefaultConfigOrValue(adv, adc) ==
    [i \in 1..Len(adc) |->
        Pair(adc[i].n, IF ~IsNone(adc[i].v) THEN adc[i].v ELSE DictGet(adv, adc[i].n))]

\* _configurable: `for k, v in kwargs.items(): args_default_value[k] = v;
\* args_default_config[k] = get_config(v)`
RECURSIVE ApplyOverrides(_, _, _, _, _)
ApplyOverrides(adv, adc, kwargs, i, n) ==
    IF i > Len(kwargs) THEN [adv |-> adv, adc |-> adc, n |-> n, e |-> ""]
    ELSE Then(GetConfig(kwargs[i].v, n), LAMBDA r :
              ApplyOverrides(DictSet(adv, kwargs[i].n, kwargs[i].v),
                             DictSet(adc, kwargs[i].n, r.v), kwargs, i + 1, r.n))

\* the class definition `@configurable(**ov) class c: def __init__(...)`:
\* the registration record of c (the closure of _configurable), or the error
Configurable(c, ov, n) ==
    Then(EvalPairs(ov, 1, <<>>, n), LAMBDA kw :
    Then(EvalItems(ClassTable[c].defaults, 1, <<>>, kw.n), LAMBDA df :
    Let(ArgsDefaultValue(ClassTable[c].params, df.v), LAMBDA adv :
    Then(ConfigOfEach(adv, 1, <<>>, df.n), LAMBDA adc :
    Then(ApplyOverrides(adv, adc.v, kw.v, 1, adc.n), LAMBDA up :
    Ok([registered |-> TRUE, names |-> ClassTable[c].params,
        defaults |-> SubSeq(adv, Len(adv) - Len(df.v) + 1, Len(adv)),
        kwargs |-> kw.v, adv |-> up.adv, adc |-> up.adc,
        adcv |-> ArgsDefaultConfigOrValue(adv, adc.v)], up.n))))))

\* ------------------------------------------------- structure and identity
\* a value without its object identities: what `==` on the rendered trees, or
\* a field-by-field comparison, sees
RECURSIVE Strip(_)
Strip(v) ==
    IF ~HasId(v) THEN v
    ELSE IF v.k \in {"list", "modulelist"}
    THEN [v EXCEPT !.id = 0, !.items = [i \in 1..Len(v.items) |-> Strip(v.items[i])]]
    ELSE [v EXCEPT !.id = 0, !.d = [i \in 1..Len(v.d) |-> Pair(v.d[i].n, Strip(v.d[i].v))]]
StripPairs(d) == [i \in 1..Len(d) |-> Pair(d[i].n, Strip(d[i].v))]

\* the identities of the mutable objects reachable from a value, itself included
RECURSIVE Ids(_)
Ids(v) ==
    IF ~HasId(v) THEN {}
    ELSE IF v.k \in {"list", "modulelist"}
    THEN {v.id} \cup UNION {Ids(v.items[i]) : i \in 1..Len(v.items)}
    ELSE {v.id} \cup UNION {Ids(v.d[i].v) : i \in 1..Len(v.d)}
\* the identities reachable from the values of a dict, the holder excluded
IdsOfPairs(d) == UNION {Ids(d[i].v) : i \in 1..Len(d)}

\* ------------------------------------------------------------ the program
\* reg: the registration record of every class defined so far; cfg: the config
\* node the program holds (NoneV before it has one); objs: the live instances
\* it holds, each one (x) with the expression that made it (how); res: the last operation, its inputs and its outcome; nid: the
\* next fresh object id; file: the bytes at the path save and load use;
\* steps: the operations run after the class definitions; edits: those of
\* them that changed the children of a composite in place.
NoFile == [k |-> "nofile"]
EmptyFile == [k |-> "bytes", tree |-> NoneV]

Init ==
    /\ reg = [c \in ClassNames |-> Unregistered]
    /\ cfg = NoneV
    /\ objs = <<>>
    /\ res = [op |-> "start", e |-> ""]
    /\ nid = 1
    /\ file = NoFile
    /\ steps = 0
    /\ edits = 0

AllRegistered == \A c \in ClassNames : reg[c].registered
Ready == AllRegistered /\ steps < MaxSteps
Keep(o, how) == IF Len(objs) < MaxObjs THEN Append(objs, [x |-> o, how |-> how]) ELSE objs

\* the next class definition of the module runs: @configurable(**ov) class c
Register ==
    \E i \in 1..Len(ClassOrder) : \E ov \in Overrides(ClassOrder[i]) :
        /\ ~reg[ClassOrder[i]].registered
        /\ \A j \in 1..(i - 1) : reg[ClassOrder[j]].registered
        /\ \E r \in {Configurable(ClassOrder[i], ov, nid)} :
            /\ reg' = IF r.e = "" THEN [reg EXCEPT ![ClassOrder[i]] = r.v] ELSE reg
            /\ res' = [op |-> "register", cls |-> ClassOrder[i], ov |-> ov, e |-> r.e]
            /\ nid' = r.n
        /\ UNCHANGED <<edits, cfg, objs, file, steps>>

\* call-time overrides of default_config
CallOverrides == {<<>>, <<Pair("width", IntV(7))>>}

\* cfg = c.default_config(**kw)
DoDefaultConfig ==
    \E c \in ClassNames : \E kw \in CallOverrides :
        /\ Ready
        /\ \E r \in {DefaultConfig(c, kw, nid)} :
            /\ cfg' = IF r.e = "" THEN r.v ELSE cfg
            /\ res' = [op |-> "default_config", cls |-> c, kw |-> kw, e |-> r.e, out |-> r.v]
            /\ nid' = r.n
        /\ steps' = steps + 1
        /\ UNCHANGED <<edits, reg, objs, file>>

\* cfg = Config(ReLU, freeze, **kw)
NodeKwargs == {<<>>, <<Pair("width", IntV(1))>>}
DoNewConfig ==
    \E fz \in BOOLEAN : \E kw \in NodeKwargs :
        /\ Ready
        /\ \E r \in {Config__init__(ClassV("ReLU"), BoolV(fz), kw, nid)} :
            /\ cfg' = IF r.e = "" THEN r.v ELSE cfg
            /\ res' = [op |-> "new_config", e |-> r.e, out |-> r.v]
            /\ nid' = r.n
        /\ steps' = steps + 1
        /\ UNCHANGED <<edits, reg, objs, file>>

\* the names and values the program writes on its node
SetNames == {"width", "cls", "isfrozen", "freeze", "zzz"}
SetValues == {IntV(7), BoolV(FALSE)}

\* cfg.<name> = value
DoSet ==
    \E name \in SetNames : \E value \in SetValues :
        /\ Ready /\ IsConfig(cfg)
        /\ \E r \in {Config__setattr__(cfg, name, value)} :
            /\ cfg' = r.v
            /\ res' = [op |-> "set", name |-> name, value |-> value, before |-> cfg, e |-> r.e]
        /\ steps' = steps + 1
        /\ UNCHANGED <<edits, reg, objs, nid, file>>

\* cfg.setattrs(mapping)
SetMappings == {<<Pair("width", IntV(8)), Pair("zzz", IntV(8))>>,
                <<Pair("zzz", IntV(8)), Pair("width", IntV(8))>>}
DoSetAttrs ==
    \E m \in SetMappings :
        /\ Ready /\ IsConfig(cfg)
        /\ \E r \in {Config_setattrs(cfg, m)} :
            /\ cfg' = r.v
            /\ res' = [op |-> "setattrs", mapping |-> m, before |-> cfg, e |-> r.e]
        /\ steps' = steps + 1
        /\ UNCHANGED <<edits, reg, objs, nid, file>>

\* cfg.freeze(flag)
DoFreeze ==
    \E flag \in BOOLEAN :
        /\ Ready /\ IsConfig(cfg)
        /\ \E r \in {Config_freeze(cfg, BoolV(flag))} :
            /\ cfg' = r.v
            /\ res' = [op |-> "freeze", flag |-> flag, before |-> cfg, e |-> r.e]
        /\ steps' = steps + 1
        /\ UNCHANGED <<edits, reg, objs, nid, file>>

\* the call sites of a direct construction c(*args, **kw): no arguments; a
\* defaulted parameter passed the declared default object itself; the first
\* parameter passed positionally; the last parameter passed by keyword
CallSites(c) ==
    {[args |-> <<>>, kw |-> <<>>]}
    \cup {[args |-> <<>>, kw |-> <<reg[c].defaults[i]>>] : i \in 1..Len(reg[c].defaults)}
    \cup {[args |-> <<IntV(7)>>, kw |-> <<>>] : i \in 1..(IF Len(reg[c].names) > 0 THEN 1 ELSE 0)}
    \cup {[args |-> <<>>, kw |-> <<Pair(reg[c].names[i], IntV(7))>>] : i \in {Len(reg[c].names)} \ {0}}

\* x = c(*args, **kw)
DoConstruct ==
    \E c \in ClassNames :
        /\ Ready
        /\ \E cs \in CallSites(c) : \E r \in {Construct(c, cs.args, cs.kw, nid)} :
            /\ objs' = IF r.e = "" THEN Keep(r.v, [op |-> "construct", site |-> cs]) ELSE objs
            /\ res' = [op |-> "construct", cls |-> c, site |-> cs, e |-> r.e, out |-> r.v]
            /\ nid' = r.n
        /\ steps' = steps + 1
        /\ UNCHANGED <<edits, reg, cfg, file>>

\* x = cfg.create_object()
DoBuild ==
    /\ Ready /\ IsConfig(cfg)
    /\ \E r \in {CreateObject(cfg, nid)} :
        /\ objs' = IF r.e = "" /\ r.v.k = "obj" THEN Keep(r.v, [op |-> "build"]) ELSE objs
        /\ res' = [op |-> "build", node |-> cfg, e |-> r.e, out |-> r.v]
        /\ nid' = r.n
    /\ steps' = steps + 1
    /\ UNCHANGED <<edits, reg, cfg, file>>

\* x = c.from_config(cfg)
DoFromConfig ==
    \E c \in ClassNames :
        /\ Ready /\ IsConfig(cfg)
        /\ \E r \in {FromConfig(c, cfg, nid)} :
            /\ objs' = IF r.e = "" THEN Keep(r.v, [op |-> "from_config"]) ELSE objs
            /\ res' = [op |-> "from_config", cls |-> c, node |-> cfg, e |-> r.e, out |-> r.v]
            /\ nid' = r.n
        /\ steps' = steps + 1
        /\ UNCHANGED <<edits, reg, cfg, file>>

\* cfg = objs[i].x.current_config()
DoCurrentConfig ==
    \E i \in 1..Len(objs) :
        /\ Ready
        /\ \E r \in {CurrentConfig(objs[i].x, nid)} :
            /\ cfg' = IF r.e = "" THEN r.v ELSE cfg
            /\ res' = [op |-> "current_config", src |-> objs[i].x, e |-> r.e, out |-> r.v]
            /\ nid' = r.n
        /\ steps' = steps + 1
        /\ UNCHANGED <<edits, reg, objs, file>>

\* Config.save(self, path): the file is opened for writing, which empties it,
\* then self.current_config() is looked up on the node; a field named save
\* hides the method, and the call fails before the file is touched
Config_save(node, f) ==
    IF MethodShadowed(node, "save") THEN [file |-> f, e |-> NotCallable]
    ELSE IF MethodShadowed(node, "current_config")
    THEN [file |-> EmptyFile, e |-> NotCallable]
    ELSE IF ~HasAttr(node, "current_config")
    THEN [file |-> EmptyFile, e |-> NoAttribute]
    ELSE [file |-> [k |-> "bytes", tree |-> node], e |-> ""]

\* Config.load(path): unpickling rebuilds the pickled tree as new objects
Config_load(f, n) ==
    IF f = NoFile THEN Err("FileNotFoundError", n)
    ELSE IF IsNone(f.tree) THEN Err("EOFError", n)
    ELSE Let(DeepCopy(f.tree, n), LAMBDA r : Ok(r.v, r.n))

\* cfg.save(path)
DoSave ==
    /\ Ready /\ IsConfig(cfg)
    /\ \E r \in {Config_save(cfg, file)} :
        /\ file' = r.file
        /\ res' = [op |-> "save", node |-> cfg, e |-> r.e]
    /\ steps' = steps + 1
    /\ UNCHANGED <<edits, reg, cfg, objs, nid>>

\* cfg = Config.load(path)
DoLoad ==
    /\ Ready
    /\ \E r \in {Config_load(file, nid)} :
        /\ cfg' = IF r.e = "" THEN r.v ELSE cfg
        /\ res' = [op |-> "load", e |-> r.e, out |-> r.v]
        /\ nid' = r.n
    /\ steps' = steps + 1
    /\ UNCHANGED <<edits, reg, objs, file>>

\* the composite expressions the program builds: a child is the default
\* template of a class (a leaf) or a composite of leaves, the composite itself
\* has up to MaxKids children; a keyed composite takes its keys from KidKeys
MaxKids == 1
KidKeys == <<"a", "b", "c", "d">>
LeafShapes == {[s |-> "leaf", cls |-> c] : c \in {"ReLU", "Plain"}}
CompositesOf(kids) ==
    {[s |-> kind, kids |-> ks] :
        kind \in {"ConfigList", "ConfigDict"},
        ks \in UNION {[1..m -> kids] : m \in 0..MaxKids}}
Shapes == CompositesOf(LeafShapes \cup CompositesOf(LeafShapes))

\* the collection handed to the composite's constructor
KidList(kind, kids, n) ==
    IF kind = "ConfigList" THEN ListV(n, kids)
    ELSE DictV(n, [i \in 1..Len(kids) |-> Pair(KidKeys[i], kids[i])])

\* the value of a composite expression: c.default_config() for a leaf,
\* ConfigList([...]) / ConfigDict({...}) of the children's values otherwise
RECURSIVE EvalShape(_, _)
RECURSIVE EvalShapes(_, _, _, _)
EvalShape(shape, n) ==
    IF shape.s = "leaf" THEN DefaultConfig(shape.cls, <<>>, n)
    ELSE Then(EvalShapes(shape.kids, 1, <<>>, n), LAMBDA ks :
              Composite__init__(shape.s, KidList(shape.s, ks.v, ks.n), ks.n + 1))
EvalShapes(kids, i, acc, n) ==
    IF i > Len(kids) THEN [v |-> acc, n |-> n, e |-> ""]
    ELSE Then(EvalShape(kids[i], n), LAMBDA r :
              EvalShapes(kids, i + 1, Append(acc, r.v), r.n))

\* cfg = ConfigList([...]) / cfg = ConfigDict({...}), the first node the
\* program makes
DoMake ==
    /\ Ready /\ IsNone(cfg)
    /\ \E shape \in Shapes : \E r \in {EvalShape(shape, nid)} :
        /\ cfg' = IF r.e = "" THEN r.v ELSE cfg
        /\ res' = [op |-> "make", shape |-> shape, e |-> r.e]
        /\ nid' = r.n
    /\ steps' = steps + 1
    /\ UNCHANGED <<edits, reg, objs, file>>

\* ------------------------------------------- children changed in place
\* The methods below reach self.configs and change that list / dict in place:
\* no attribute of the node is written, so a frozen node accepts them, and the
\* node handed in is stored as it is, without the copy the constructor makes.
ValueMissing == "ValueError"
IndexOutOfRange == "IndexError"

\* self.configs of a composite, and the node with that collection's content
\* replaced (the collection keeps its identity)
Configs(node) == DictGet(node.d, "configs")
WithItems(node, items) ==
    [node EXCEPT !.d = DictSet(node.d, "configs", [Configs(node) EXCEPT !.items = items])]
WithPairs(node, d) ==
    [node EXCEPT !.d = DictSet(node.d, "configs", [Configs(node) EXCEPT !.d = d])]

\* node.<name>(...) where <name> is a method of ConfigList only
ListMethod(node, name) ==
    IF MethodShadowed(node, name) THEN NotCallable
    ELSE IF node.kind # "ConfigList" THEN NoAttribute
    ELSE ""

\* ConfigList.append(self, c)
ConfigList_append(node, c) ==
    IF ListMethod(node, "append") # "" THEN [v |-> node, e |-> ListMethod(node, "append")]
    ELSE IF ~IsConfig(c) THEN [v |-> node, e |-> AssertionFailed]
    ELSE [v |-> WithItems(node, Append(Configs(node).items, c)), e |-> ""]

\* list.insert(idx, c): a negative index counts from the end, and an index
\* beyond either end is clamped to it
InsertAt(items, idx, c) ==
    Let(IF idx < 0 THEN (IF idx + Len(items) < 0 THEN 0 ELSE idx + Len(items))
        ELSE (IF idx > Len(items) THEN Len(items) ELSE idx), LAMBDA p :
        SubSeq(items, 1, p) \o <<c>> \o SubSeq(items, p + 1, Len(items)))

\* ConfigList.insert(self, idx, c)
ConfigList_insert(node, idx, c) ==
    IF ListMethod(node, "insert") # "" THEN [v |-> node, e |-> ListMethod(node, "insert")]
    ELSE IF ~IsConfig(c) THEN [v |-> node, e |-> AssertionFailed]
    ELSE [v |-> WithItems(node, InsertAt(Configs(node).items, idx, c)), e |-> ""]

\* the sequence without its element at position p (1-based)
Without(items, p) == SubSeq(items, 1, p - 1) \o SubSeq(items, p + 1, Len(items))

\* ConfigList.remove(self, x): the first child that is x goes (a Config
\* defines no __eq__, so list.remove compares by identity)
ConfigList_remove(node, x) ==
    IF ListMethod(node, "remove") # "" THEN [v |-> node, e |-> ListMethod(node, "remove")]
    ELSE IF ~\E i \in 1..Len(Configs(node).items) : Is(Configs(node).items[i], x)
    THEN [v |-> node, e |-> ValueMissing]
    ELSE Let(CHOOSE i \in 1..Len(Configs(node).items) :
                 /\ Is(Configs(node).items[i], x)
                 /\ \A j \in 1..(i - 1) : ~Is(Configs(node).items[j], x), LAMBDA p :
             [v |-> WithItems(node, Without(Configs(node).items, p)), e |-> ""])

\* ConfigList.pop(self, idx): the child at idx (negative: from the end) is
\* taken out and returned
ConfigList_pop(node, idx) ==
    IF ListMethod(node, "pop") # ""
    THEN [v |-> node, out |-> NoneV, e |-> ListMethod(node, "pop")]
    ELSE Let(IF idx < 0 THEN idx + Len(Configs(node).items) + 1 ELSE idx + 1, LAMBDA p :
             IF p \notin 1..Len(Configs(node).items)
             THEN [v |-> node, out |-> NoneV, e |-> IndexOutOfRange]
             ELSE [v |-> WithItems(node, Without(Configs(node).items, p)),
                   out |-> Configs(node).items[p], e |-> ""])

\* ConfigDict.__setitem__(self, i, v), reached by node[i] = v; the other
\* node classes define no __setitem__
ConfigDict__setitem__(node, i, v) ==
    IF node.kind # "ConfigDict" THEN [v |-> node, e |-> NoItemAssignment]
    ELSE IF ~IsConfig(v) THEN [v |-> node, e |-> AssertionFailed]
    ELSE [v |-> WithPairs(node, DictSet(Configs(node).d, i, v)), e |-> ""]

\* ConfigList.__getitem__(self, i) / ConfigDict.__getitem__(self, i) with
\* i = 0: the first child of a list; a dict has no key 0
GetFirst(node, n) ==
    IF node.kind = "ConfigList"
    THEN IF Len(Configs(node).items) = 0 THEN Err(IndexOutOfRange, n)
         ELSE Ok(Configs(node).items[1], n)
    ELSE IF node.kind = "ConfigDict" THEN Err(KeyMissing, n)
    ELSE Err("TypeError: object is not subscriptable", n)

\* the argument expressions of the calls below: c.default_config() of a
\* class, ConfigList([]), the number 7, and cfg[0]
TemplateOf(c) == [s |-> "leaf", cls |-> c]
EmptyList == [s |-> "ConfigList", kids |-> <<>>]
Seven == [s |-> "int"]
FirstChild == [s |-> "first"]
EvalArg(a, node, n) ==
    IF a.s = "int" THEN Ok(IntV(7), n)
    ELSE IF a.s = "first" THEN GetFirst(node, n)
    ELSE EvalShape(a, n)

\* the argument of node.<name>(<a>): Python looks the method up first, so a
\* node without that method raises before the argument is evaluated
ArgOfCall(node, name, a, n) ==
    IF ListMethod(node, name) = NoAttribute THEN Err(NoAttribute, n)
    ELSE EvalArg(a, node, n)

Editable == Ready /\ IsConfig(cfg) /\ edits < MaxEdits

\* cfg.append(<a>)
AppendArgs == {TemplateOf("ReLU"), TemplateOf("Plain"), Seven, FirstChild}
DoAppend ==
    /\ Editable
    /\ \E a \in AppendArgs : \E c \in {ArgOfCall(cfg, "append", a, nid)} :
         \E r \in {IF c.e # "" THEN [v |-> cfg, e |-> c.e] ELSE ConfigList_append(cfg, c.v)} :
            /\ cfg' = r.v
            /\ res' = [op |-> "append", arg |-> a, before |-> cfg, e |-> r.e]
            /\ nid' = c.n
    /\ steps' = steps + 1
    /\ edits' = edits + 1
    /\ UNCHANGED <<reg, objs, file>>

\* cfg.insert(<idx>, <a>)
InsertCalls == {[idx |-> 0, a |-> TemplateOf("Plain")], [idx |-> -1, a |-> TemplateOf("ReLU")]}
DoInsert ==
    /\ Editable
    /\ \E call \in InsertCalls : \E c \in {ArgOfCall(cfg, "insert", call.a, nid)} :
         \E r \in {IF c.e # "" THEN [v |-> cfg, e |-> c.e]
                   ELSE ConfigList_insert(cfg, call.idx, c.v)} :
            /\ cfg' = r.v
            /\ res' = [op |-> "insert", idx |-> call.idx, arg |-> call.a,
                       before |-> cfg, e |-> r.e]
            /\ nid' = c.n
    /\ steps' = steps + 1
    /\ edits' = edits + 1
    /\ UNCHANGED <<reg, objs, file>>

\* cfg.remove(<a>)
RemoveArgs == {FirstChild, TemplateOf("ReLU")}
DoRemove ==
    /\ Editable
    /\ \E a \in RemoveArgs : \E c \in {ArgOfCall(cfg, "remove", a, nid)} :
         \E r \in {IF c.e # "" THEN [v |-> cfg, e |-> c.e] ELSE ConfigList_remove(cfg, c.v)} :
            /\ cfg' = r.v
            /\ res' = [op |-> "remove", arg |-> a, before |-> cfg, e |-> r.e]
            /\ nid' = c.n
    /\ steps' = steps + 1
    /\ edits' = edits + 1
    /\ UNCHANGED <<reg, objs, file>>

\* cfg.pop(<idx>)
PopAt == {0, -1}
DoPop ==
    /\ Editable
    /\ \E idx \in PopAt : \E r \in {ConfigList_pop(cfg, idx)} :
        /\ cfg' = r.v
        /\ res' = [op |-> "pop", idx |-> idx, before |-> cfg, e |-> r.e, out |-> r.out]
    /\ steps' = steps + 1
    /\ edits' = edits + 1
    /\ UNCHANGED <<reg, objs, nid, file>>

\* cfg[<key>] = <a>
SetItemCalls ==
    {[key |-> "a", a |-> TemplateOf("Plain")], [key |-> "b", a |-> EmptyList],
     [key |-> "b", a |-> Seven]}
DoSetItem ==
    /\ Editable
    /\ \E call \in SetItemCalls : \E c \in {EvalArg(call.a, cfg, nid)} :
         \E r \in {IF c.e # "" THEN [v |-> cfg, e |-> c.e]
                   ELSE ConfigDict__setitem__(cfg, call.key, c.v)} :
            /\ cfg' = r.v
            /\ res' = [op |-> "setitem", key |-> call.key, arg |-> call.a,
                       before |-> cfg, e |-> r.e]
            /\ nid' = c.n
    /\ steps' = steps + 1
    /\ edits' = edits + 1
    /\ UNCHANGED <<reg, objs, file>>

\* the class definitions of a module that registers every class with the
\* bare decorator: @configurable() class c
Define ==
    \E i \in 1..Len(ClassOrder) :
        /\ ~reg[ClassOrder[i]].registered
        /\ \A j \in 1..(i - 1) : reg[ClassOrder[j]].registered
        /\ \E r \in {Configurable(ClassOrder[i], <<>>, nid)} :
            /\ reg' = IF r.e = "" THEN [reg EXCEPT ![ClassOrder[i]] = r.v] ELSE reg
            /\ res' = [op |-> "register", cls |-> ClassOrder[i], ov |-> <<>>, e |-> r.e]
            /\ nid' = r.n
        /\ UNCHANGED <<edits, cfg, objs, file, steps>>

\* ----------------------------------------------------------- specifications
\* the node and object operations of a program whose classes are registered
\* with or without overrides
Next ==
    \/ Register
    \/ DoDefaultConfig
    \/ DoNewConfig
    \/ DoSet
    \/ DoSetAttrs
    \/ DoFreeze
    \/ DoConstruct
    \/ DoBuild
    \/ DoFromConfig
    \/ DoCurrentConfig
    \/ DoSave
    \/ DoLoad

Spec == Init /\ [][Next]_vars

\* registration and the default templates
NextReg == Register \/ DoDefaultConfig

SpecReg == Init /\ [][NextReg]_vars

\* composites: made, changed in place, built
NextComp ==
    \/ Define
    \/ DoMake
    \/ DoAppend
    \/ DoInsert
    \/ DoRemove
    \/ DoPop
    \/ DoSetItem
    \/ DoBuild

SpecComp == Init /\ [][NextComp]_vars

\* ------------------------------------------------------------- properties
\* Each property is a predicate of the state an operation leaves: res holds
\* the operation, its inputs and its outcome.

\* the parameters of c without a declared default
NoDefault(c) ==
    {ClassTable[c].params[i] :
        i \in 1..(Len(ClassTable[c].params) - Len(ClassTable[c].defaults))}
\* the classes whose parameters all have defaults and whose original
\* constructor stores each parameter under its own name
RoundTripClasses ==
    {c \in ClassNames :
        /\ NoDefault(c) = {}
        /\ ClassTable[c].stores = {ClassTable[c].params[i] : i \in 1..Len(ClassTable[c].params)}}
\* from_config was handed a node equal to c.default_config()
IsDefaultTemplate(c, node) ==
    Let(DefaultConfig(c, <<>>, nid), LAMBDA r : r.e = "" /\ Strip(r.v) = Strip(node))

\* C1: for every registered class whose parameters all have defaults and are
\* all stored under their own names, default_config() succeeds,
\* from_config(default_config()) succeeds, and current_config() of the
\* instance is field for field equal to default_config().
C1_RoundTrip ==
    /\ (res.op = "default_config" /\ res.cls \in RoundTripClasses /\ res.kw = <<>>)
        => res.e = ""
    /\ (res.op = "from_config" /\ res.cls \in RoundTripClasses
          /\ IsDefaultTemplate(res.cls, res.node))
        => /\ res.e = ""
           /\ Let(CurrentConfig(res.out, nid), LAMBDA r :
                  r.e = "" /\ Strip(r.v) = Strip(res.node))

\* the failing case of C1: a class with a defaulted, stored parameter named
\* freeze has no default template
C1_FreezeParameter ==
    /\ res.op = "default_config" /\ res.cls = "Gate" /\ res.kw = <<>>
    /\ "Gate" \in RoundTripClasses
    /\ res.e = NotCallable

\* the parameters of c whose declared default is config-capturable
CapturableDefaults(c) ==
    {p \in DictNames(reg[c].defaults) :
        Let(GetConfig(DictGet(reg[c].defaults, p), nid), LAMBDA g : g.e = "" /\ ~IsNone(g.v))}
\* held instance i was made by c() with no call-site arguments
DirectNoArgs(i) ==
    /\ objs[i].how.op = "construct"
    /\ objs[i].how.site.args = <<>> /\ objs[i].how.site.kw = <<>>

\* C2: two instances made by C() and C() hold distinct objects for every
\* parameter whose declared default is config-capturable, and neither holds
\* the class's shared declared default object.
C2_NoDefaultAliasing ==
    \A i, j \in 1..Len(objs) :
        (i # j /\ DirectNoArgs(i) /\ DirectNoArgs(j) /\ objs[i].x.cls = objs[j].x.cls)
        => \A p \in CapturableDefaults(objs[i].x.cls) :
              (ObjHasAttr(objs[i].x, p) /\ ObjHasAttr(objs[j].x, p))
              => /\ ~Is(DictGet(objs[i].x.d, p), DictGet(objs[j].x.d, p))
                 /\ ~Is(DictGet(objs[i].x.d, p), DictGet(reg[objs[i].x.cls].defaults, p))

\* the failing case of C2: Layer() and Layer() hold the same activation, the
\* declared default object
C2_SharedDefault ==
    /\ Len(objs) = 2 /\ DirectNoArgs(1) /\ DirectNoArgs(2)
    /\ objs[1].x.cls = "Layer" /\ objs[2].x.cls = "Layer"
    /\ objs[1].x.id # objs[2].x.id
    /\ "activation" \in CapturableDefaults("Layer")
    /\ Is(DictGet(objs[1].x.d, "activation"), DictGet(objs[2].x.d, "activation"))
    /\ Is(DictGet(objs[1].x.d, "activation"), DictGet(reg["Layer"].defaults, "activation"))

\* C3: on a frozen node, writing a name that is already a field succeeds and
\* changes only that field; writing any other name, the names of the node's
\* operations included, fails with UnknownField and leaves the node as it
\* was; set, setattrs and freeze(True) never change a frozen node's names.
C3_FreezeDiscipline ==
    /\ (res.op = "set" /\ IsFrozen(res.before))
        => IF res.name \in DictNames(res.before.d)
           THEN /\ res.e = ""
                /\ cfg = [res.before EXCEPT !.d = DictSet(res.before.d, res.name, res.value)]
           ELSE /\ res.e = UnknownField
                /\ cfg = res.before
    /\ ((res.op \in {"set", "setattrs"} \/ (res.op = "freeze" /\ res.flag))
          /\ IsFrozen(res.before))
        => DictNames(cfg.d) = DictNames(res.before.d)

\* the failing case of C3: a frozen node accepts the new name freeze
C3_FrozenNodeGrows ==
    /\ res.op = "set" /\ res.name = "freeze"
    /\ IsFrozen(res.before) /\ ~DictHas(res.before.d, "freeze")
    /\ res.e = ""
    /\ DictHas(cfg.d, "freeze")

\* the realized child of a config node: an instance of the target for a leaf;
\* for a composite a collection of the same length, order and keys whose
\* children are realized children, the framework's collection exactly when it
\* is non-empty and every child in it is an nn.Module
RECURSIVE Realizes(_, _)
Realizes(node, out) ==
    IF node.kind = "ConfigList"
    THEN Let(DictGet(node.d, "configs").items, LAMBDA kids :
         /\ out.k \in {"list", "modulelist"}
         /\ Len(out.items) = Len(kids)
         /\ \A i \in 1..Len(kids) : Realizes(kids[i], out.items[i])
         /\ out.k = "modulelist"
              <=> (Len(kids) > 0 /\ \A i \in 1..Len(kids) : IsModule(out.items[i])))
    ELSE IF node.kind = "ConfigDict"
    THEN Let(DictGet(node.d, "configs").d, LAMBDA kids :
         /\ out.k \in {"dict", "moduledict"}
         /\ Len(out.d) = Len(kids)
         /\ \A i \in 1..Len(kids) :
               out.d[i].n = kids[i].n /\ Realizes(kids[i].v, out.d[i].v)
         /\ out.k = "moduledict"
              <=> (Len(kids) > 0 /\ \A i \in 1..Len(kids) : IsModule(out.d[i].v)))
    ELSE out.k = "obj" /\ ClassV(out.cls) = Target(node)

\* C4: create_object of a composite returns the framework's collection if and
\* only if the composite is non-empty and every realized child is an
\* nn.Module; otherwise a plain list / dict of the realized children in the
\* same order / under the same keys; an empty composite gives an empty plain
\* collection.  The same holds of every nested composite.
C4_Promotion ==
    (res.op = "build" /\ res.node.kind \in {"ConfigList", "ConfigDict"})
    => res.e = "" /\ Realizes(res.node, res.out)

\* a case of C4: a keyed composite of a list of one ReLU and an empty list
\* builds a plain dict holding a ModuleList and an empty plain list
C4_NestedBuilt ==
    /\ res.op = "build" /\ res.node.kind = "ConfigDict" /\ res.e = ""
    /\ res.out.k = "dict" /\ Len(res.out.d) = 2
    /\ res.out.d[1].v.k = "modulelist" /\ Len(res.out.d[1].v.items) = 1
    /\ res.out.d[2].v.k = "list" /\ Len(res.out.d[2].v.items) = 0

\* the parameters of c that have no declared default and no override in the
\* registration's keyword arguments kw
Unresolved(c, kw) == NoDefault(c) \ DictNames(kw)

\* C5 (as the code has it): registering a class with a parameter that has no
\* declared default and no override succeeds, and every default template of
\* the class carries None for that parameter unless the call overrides it.
C5_MissingDefaultIsNone ==
    /\ res.op = "register" => res.e = "" /\ reg[res.cls].registered
    /\ (res.op = "default_config" /\ Unresolved(res.cls, reg[res.cls].kwargs) # {})
        => /\ res.e = ""
           /\ \A p \in Unresolved(res.cls, reg[res.cls].kwargs) \ DictNames(res.kw) :
                 DictHas(res.out.d, p) /\ IsNone(DictGet(res.out.d, p))

\* C5 as stated: such a registration fails with MissingRequiredParameter, and
\* no default template carries a placeholder for such a parameter.
C5_RegistrationFails ==
    /\ (res.op = "register" /\ Unresolved(res.cls, res.ov) # {})
        => res.e = "MissingRequiredParameter"
    /\ (res.op = "default_config" /\ res.e = "")
        => \A p \in Unresolved(res.cls, reg[res.cls].kwargs) \ DictNames(res.kw) :
              ~DictHas(res.out.d, p)

\* a case of C5: Plain, registered without an override for req, has a default
\* template whose req is None
C5_PlaceholderTemplate ==
    /\ res.op = "default_config" /\ res.cls = "Plain" /\ res.e = ""
    /\ "req" \in Unresolved("Plain", reg["Plain"].kwargs)
    /\ IsNone(DictGet(res.out.d, "req"))

\* C6: save(path) of a node succeeds, and a following load(path) returns a
\* tree with the same target, frozen flag, field names and values.
C6_SaveLoadRoundTrip ==
    /\ res.op = "save"
        => res.e = "" /\ file # NoFile /\ Strip(file.tree) = Strip(res.node)
    /\ (res.op = "load" /\ file # NoFile)
        => res.e = "" /\ Strip(res.out) = Strip(file.tree)

\* the failing case of C6: save raises on a plain node and leaves an empty file
C6_SaveRaises ==
    /\ res.op = "save" /\ res.node.kind = "Config"
    /\ ~DictHas(res.node.d, "current_config")
    /\ res.e = NoAttribute
    /\ file = EmptyFile

\* C7: set, setattrs, freeze, current_config and create_object leave a node's
\* target as it was, frozen or not, and the node default_config(**overrides)
\* of a class returns has that class as its target.
C7_TargetFixed ==
    /\ res.op \in {"set", "setattrs", "freeze"} => Target(cfg) = Target(res.before)
    /\ res.op = "build" => cfg = res.node
    /\ (res.op = "default_config" /\ res.e = "") => Target(res.out) = ClassV(res.cls)
    /\ (res.op = "current_config" /\ res.e = "") => Target(res.out) = ClassV(res.src.cls)

\* the failing case of C7: a frozen node's target is overwritten by a write
\* of the name cls
C7_TargetOverwritten ==
    /\ res.op = "set" /\ res.name = "cls" /\ IsFrozen(res.before)
    /\ res.e = ""
    /\ Target(res.before).k = "class"
    /\ Target(cfg) = res.value

\* C8: no field value of x.current_config(), at any depth, is the same object
\* as an attribute value of x or of its sub-components, and no attribute
\* value of cfg.create_object() is the same object as a field value of cfg.
C8_NoAliasing ==
    /\ (res.op = "current_config" /\ res.e = "")
        => IdsOfPairs(res.out.d) \cap IdsOfPairs(res.src.d) = {}
    /\ (res.op = "build" /\ res.e = "" /\ res.out.k = "obj")
        => IdsOfPairs(res.out.d) \cap IdsOfPairs(res.node.d) = {}

\* the failing case of C8: the snapshot of a Layer holds the instance's own
\* sizes list
C8_SnapshotSharesList ==
    /\ res.op = "current_config" /\ res.e = "" /\ res.src.cls = "Layer"
    /\ DictGet(res.src.d, "sizes").k = "list"
    /\ Is(DictGet(res.out.d, "sizes"), DictGet(res.src.d, "sizes"))

\* C9: default_config() without call-time overrides has, for every parameter
\* the registration overrode with p=v, the captured config of v (v itself when
\* v is not capturable), and for every other parameter the captured config of
\* the declared default (the raw default when not capturable).
C9_TemplateHasOverrides ==
    (res.op = "default_config" /\ res.kw = <<>> /\ res.e = "")
    => \A p \in DictNames(reg[res.cls].adv) :
          /\ DictHas(res.out.d, p)
          /\ Strip(DictGet(res.out.d, p))
               = Strip(ConfigOrValue(DictGet(reg[res.cls].adc, p),
                                     DictGet(reg[res.cls].adv, p)))

\* the failing case of C9: Plain registered with width=99 has a default
\* template whose width is the declared 10
C9_OverrideIgnored ==
    /\ res.op = "default_config" /\ res.kw = <<>> /\ res.e = "" /\ res.cls = "Plain"
    /\ DictHas(reg["Plain"].kwargs, "width")
    /\ DictGet(reg["Plain"].kwargs, "width") = IntV(99)
    /\ DictGet(res.out.d, "width") = IntV(10)

\* C10: a failed attribute write of the wrapped constructor's mirroring is
\* never surfaced by the construction, before or after the original
\* constructor; the parameter is left unbound.
C10_MirroringBestEffort ==
    res.op = "construct" => res.e # NoAttribute

\* the failing case of C10: Slot(b=7), whose __slots__ has no b, raises from
\* the retry after the original constructor
C10_RetryRaises ==
    /\ res.op = "construct" /\ res.cls = "Slot"
    /\ res.site.kw = <<Pair("b", IntV(7))>>
    /\ "b" \notin ClassTable["Slot"].slots
    /\ res.e = NoAttribute

====
